---- MODULE Spec2Model ----
(***************************************************************************)
(* Model of fluoride (packages/fluoride/index.ts): GraphBuilder, Graph and *)
(* the scopes none / singleton / weak.                                     *)
(*                                                                         *)
(* Objects live in heaps indexed by their position: maps (the JS Map       *)
(* objects holding bindings), builders, graphs.  A binding                 *)
(* scope(graph => new ctor(graph)) is the pair [scope, ctor].  The hidden  *)
(* properties a scope defines on a graph are the graph's props.            *)
(* A resolve call is synchronous and single threaded, so it is one action: *)
(* the operator resolve computes the whole recursive call.                 *)
(***************************************************************************)
EXTENDS Integers, Sequences, FiniteSets, TLC

VARIABLES program, maps, builders, graphs, returned, thrown

vars == <<program, maps, builders, graphs, returned, thrown>>

----------------------------------------------------------------------------
(* Bounds of the model *)

MaxBuilders == 3
MaxGraphs == 2
\* most invocations of one provider on one graph
MaxMade == 2
\* depth of nested resolve calls the JS call stack holds before RangeError
MaxStack == 4

----------------------------------------------------------------------------
(* Inputs: interface tokens and the client classes bound to them *)

Iface == {"Heater", "Pump", "CoffeeMaker"}

\* classes of examples/coffee-shop.ts, plus two client classes:
\* SteamHeater is a Heater that needs a Pump, Barista a CoffeeMaker that
\* needs both a Heater and a Pump
Ctors == {"ElectricHeater", "GasHeater", "Thermosiphon", "CoffeeMaker",
          "SteamHeater", "Barista"}

\* the interface a class implements (C extends I)
Implements(ctor) ==
  CASE ctor = "ElectricHeater" -> "Heater"
    [] ctor = "GasHeater" -> "Heater"
    [] ctor = "SteamHeater" -> "Heater"
    [] ctor = "Thermosiphon" -> "Pump"
    [] ctor = "CoffeeMaker" -> "CoffeeMaker"
    [] ctor = "Barista" -> "CoffeeMaker"

\* the interfaces the constructor resolves from the graph it is given, in order
Deps(ctor) ==
  CASE ctor = "ElectricHeater" -> <<>>
    [] ctor = "GasHeater" -> <<>>
    [] ctor = "SteamHeater" -> <<"Pump">>
    [] ctor = "Thermosiphon" -> <<"Heater">>
    [] ctor = "CoffeeMaker" -> <<"Pump">>
    [] ctor = "Barista" -> <<"Heater", "Pump">>

Range(s) == {s[k] : k \in 1..Len(s)}

\* P of GraphConstructor<P, C>: the interfaces the constructor's graph must resolve
Requires(ctor) == Range(Deps(ctor))

\* EmptyConstructor<T>: { new (): T }
EmptyConstructor == {c \in Ctors : Deps(c) = <<>>}

Scopes == {"none", "singleton", "weak"}

\* a class bound under a scope, as the client passes them to start / add
B(ctor, scope) == [ctor |-> ctor, scope |-> scope]

\* the client programs: each is the set of bindings its calls draw from
CoffeeShop ==
  {B("ElectricHeater", "none"), B("Thermosiphon", "none"), B("CoffeeMaker", "none")}
CoffeeLibrary ==
  {B("ElectricHeater", "none"), B("Thermosiphon", "none"), B("CoffeeMaker", "singleton")}
TwoSingletons ==
  {B("ElectricHeater", "none"), B("Thermosiphon", "singleton"), B("CoffeeMaker", "singleton")}
WeakPump ==
  {B("ElectricHeater", "none"), B("Thermosiphon", "weak"), B("CoffeeMaker", "singleton")}
Rebinding ==
  {B("ElectricHeater", "none"), B("GasHeater", "singleton"), B("Thermosiphon", "none")}
Cyclic ==
  {B("ElectricHeater", "none"), B("Thermosiphon", "none"), B("SteamHeater", "none")}
TwoDeps ==
  {B("ElectricHeater", "none"), B("GasHeater", "singleton"), B("Barista", "singleton")}

Programs == {CoffeeShop, CoffeeLibrary, TwoSingletons, WeakPump, Rebinding, Cyclic, TwoDeps}

----------------------------------------------------------------------------
(* Values *)

NoError == [kind |-> "none", iface |-> ""]

\* the function scopes.singleton itself, which weak stores as the cached value
SingletonFn == [ctor |-> "scopes.singleton", id |-> <<>>, parts |-> <<>>]

\* an absent own property, a fresh Map / WeakMap
NoProp == [defined |-> FALSE, kind |-> "", entries |-> <<>>]
NewMap == [defined |-> TRUE, kind |-> "Map", entries |-> <<>>]
NewWeakMap == [defined |-> TRUE, kind |-> "WeakMap", entries |-> <<>>]

\* Map.prototype.set on a map value (a function from keys to values)
MapSet(m, k, v) == [x \in (DOMAIN m) \cup {k} |-> IF x = k THEN v ELSE m[x]]

\* new Map(map): a copy with the same entries
MapCopy(m) == [x \in DOMAIN m |-> m[x]]

----------------------------------------------------------------------------
(* Graph.resolve and the scopes.                                           *)
(* g is the graph's identity, G its state [map, props, made]; a call       *)
(* returns [G, ok, val, err]: the graph's state after the call and either  *)
(* the value returned or the error thrown.                                 *)

NoValue == [ctor |-> "", id |-> <<>>, parts |-> <<>>]

Return(G, v) == [G |-> G, ok |-> TRUE, val |-> v, err |-> NoError]

Throw(G, kind, iface) ==
  [G |-> G, ok |-> FALSE, val |-> NoValue, err |-> [kind |-> kind, iface |-> iface]]

\* a faulty variant of GetOwnPropertyDescriptor: the property is looked up on
\* one object all graphs share (here the first graph built)
GetSharedPropertyDescriptor(G, symbol) == graphs[1].props[symbol]

\* Object.getOwnPropertyDescriptor(graph, symbol)
GetOwnPropertyDescriptor(G, symbol) == G.props[symbol]

\* Object.defineProperty(graph, symbol, {configurable: false, enumerable: false,
\* value}) with a value that is a newly created object: it defines the property
\* when absent, and is a TypeError (cannot redefine) when the graph already has
\* a non-configurable, non-writable property under that symbol
CanDefineProperty(G, symbol) == ~G.props[symbol].defined

\* a faulty variant of DefineProperty: the value is also set as an entry of the
\* Map of bindings the graph holds
DefinePropertyInMap(G, symbol, value) ==
  [G EXCEPT !.props[symbol] = value,
            !.map = MapSet(@, symbol, [scope |-> "", ctor |-> ""])]

DefineProperty(G, symbol, value) == [G EXCEPT !.props[symbol] = value]

RECURSIVE resolve(_, _, _, _)
RECURSIVE ctorBody(_, _, _, _, _, _)
RECURSIVE ctorBodyOnFirstGraph(_, _, _, _, _, _)

\* maker: graph => new ctor(graph).  The provider of iface is invoked (counted
\* in made) and the constructor resolves its dependencies from the same graph.
\* The object is the n-th one the provider of iface constructs on graph g.
maker(g, G, iface, ctor, depth) ==
  LET n == G.made[iface] + 1
      G1 == [G EXCEPT !.made[iface] = n]
      r == ctorBody(g, G1, Deps(ctor), 1, depth, <<>>)
  IN IF ~r.ok THEN r
     ELSE Return(r.G, [ctor |-> ctor, id |-> <<g, iface, n>>, parts |-> r.val])

\* a faulty variant of ctorBody: the dependency is resolved with the bindings
\* of the first graph built, not with those of the graph the provider was given
ctorBodyOnFirstGraph(g, G, deps, k, depth, parts) ==
  IF k > Len(deps) THEN Return(G, parts)
  ELSE LET r0 == resolve(g, [G EXCEPT !.map = maps[graphs[1].map]], deps[k], depth + 1)
           r == [r0 EXCEPT !.G.map = G.map]
       IN IF ~r.ok THEN r
          ELSE ctorBodyOnFirstGraph(g, r.G, deps, k + 1, depth, Append(parts, r.val))

\* the constructor's body: this.x = graph.resolve(X) for each dependency
ctorBody(g, G, deps, k, depth, parts) ==
  IF k > Len(deps) THEN Return(G, parts)
  ELSE LET r == resolve(g, G, deps[k], depth + 1)
       IN IF ~r.ok THEN r
          ELSE ctorBody(g, r.G, deps, k + 1, depth, Append(parts, r.val))

\* scopes.none
none(g, G, iface, ctor, depth) == maker(g, G, iface, ctor, depth)

\* a faulty variant of singleton: a failed construction is cached as well
singletonCachingFailure(g, G, iface, ctor, depth) ==
  LET descriptor == GetOwnPropertyDescriptor(G, "singletonSymbol")
      singletonMap == IF descriptor.defined THEN descriptor ELSE NewMap
      G1 == IF ~descriptor.defined
            THEN DefineProperty(G, "singletonSymbol", singletonMap)
            ELSE G
  IN IF iface \in DOMAIN singletonMap.entries
     THEN Return(G1, singletonMap.entries[iface])
     ELSE LET r == maker(g, G1, iface, ctor, depth)
          IN IF ~r.ok
             THEN [r EXCEPT !.G.props["singletonSymbol"].entries =
                              MapSet(@, iface, NoValue)]
             ELSE Return([r.G EXCEPT !.props["singletonSymbol"].entries =
                                        MapSet(@, iface, r.val)],
                         r.val)

\* scopes.singleton
singleton(g, G, iface, ctor, depth) ==
  LET descriptor == GetOwnPropertyDescriptor(G, "singletonSymbol")
      singletonMap == IF descriptor.defined THEN descriptor ELSE NewMap
      G1 == IF ~descriptor.defined
            THEN DefineProperty(G, "singletonSymbol", singletonMap)
            ELSE G
  IN IF iface \in DOMAIN singletonMap.entries
     THEN Return(G1, singletonMap.entries[iface])
     ELSE LET r == maker(g, G1, iface, ctor, depth)
          IN IF ~r.ok THEN r
             ELSE Return([r.G EXCEPT !.props["singletonSymbol"].entries =
                                        MapSet(@, iface, r.val)],
                         r.val)

\* scopes.weak: the descriptor is read under weakSymbol, the cache is defined
\* under singletonSymbol, and the value stored is the function singleton.
\* The keys of the WeakMap are interface tokens, which the graph's own map
\* keeps reachable, so no entry is ever collected.
weak(g, G, iface, ctor, depth) ==
  LET descriptor == GetOwnPropertyDescriptor(G, "weakSymbol")
      weakMap == IF descriptor.defined THEN descriptor ELSE NewWeakMap
      \* the property through which the object weakMap is reachable afterwards
      held == IF descriptor.defined THEN "weakSymbol" ELSE "singletonSymbol"
  IN IF ~descriptor.defined /\ ~CanDefineProperty(G, "singletonSymbol")
     THEN Throw(G, "TypeError", iface)
     ELSE LET G1 == IF ~descriptor.defined
                    THEN DefineProperty(G, "singletonSymbol", weakMap)
                    ELSE G
          IN IF iface \in DOMAIN weakMap.entries
             THEN Return([G1 EXCEPT !.props[held].entries =
                                      MapSet(@, iface, SingletonFn)],
                         weakMap.entries[iface])
             ELSE LET r == maker(g, G1, iface, ctor, depth)
                  IN IF ~r.ok THEN r
                     ELSE Return([r.G EXCEPT !.props[held].entries =
                                               MapSet(@, iface, SingletonFn)],
                                 r.val)

\* the bound function scope(maker) applied to (graph, iface)
provider(binding, g, G, iface, depth) ==
  CASE binding.scope = "none" -> none(g, G, iface, binding.ctor, depth)
    [] binding.scope = "singleton" -> singleton(g, G, iface, binding.ctor, depth)
    [] binding.scope = "weak" -> weak(g, G, iface, binding.ctor, depth)

\* a faulty variant of Unsatisfied: the lookup of an unbound interface yields undefined
UnsatisfiedIsUndefined(G, iface) == Return(G, NoValue)

\* throw new Error(`Unsatisfied dependency for ${iface}`)
Unsatisfied(G, iface) == Throw(G, "UnsatisfiedDependency", iface)

\* Graph.resolve.  A call nested deeper than the call stack allows is a
\* RangeError (maximum call stack size exceeded).
resolve(g, G, iface, depth) ==
  IF depth > MaxStack THEN Throw(G, "RangeError", iface)
  ELSE IF iface \notin DOMAIN G.map
       THEN Unsatisfied(G, iface)
       ELSE provider(G.map[iface], g, G, iface, depth)

----------------------------------------------------------------------------
(* State                                                                   *)
(* program: the bindings the client's calls draw from.                     *)
(* maps, builders, graphs: the heaps.  returned[g][i]: the values the      *)
(* client's calls graphs[g].resolve(i) returned so far; thrown: the error  *)
(* the latest failed resolve call threw to the client.                     *)

\* the bindings of builder b and of graph g: the entries of their Map objects
BuilderMap(b) == maps[builders[b].map]
GraphMap(g) == maps[graphs[g].map]

Builders == 1..Len(builders)
Graphs == 1..Len(graphs)

Init ==
  /\ program \in Programs
  /\ maps = <<>>
  /\ builders = <<>>
  /\ graphs = <<>>
  /\ returned = <<>>
  /\ thrown = NoError

\* the return type of add: D extends P ? GraphBuilder<I | O> : never.
\* D is a naked type parameter, so the condition distributes over the union
\* D: the result is never only when no member of D extends P.  P is the union
\* of the interfaces the constructor requires, unknown when it requires none.
AddIsNever(D, ctor) ==
  /\ Requires(ctor) # {}
  /\ ~ \E d \in D : d \in Requires(ctor)

NoBinding == [scope |-> "", ctor |-> ""]

\* how a builder came about (history, kept for the properties): the call that
\* returned it, the receiver, the arguments, and the binding the receiver had
\* for impl when add was called
Origin(op, of, impl, ctor, scope, prev) ==
  [op |-> op, of |-> of, impl |-> impl, ctor |-> ctor, scope |-> scope, prev |-> prev]

\* new GraphBuilder(map): this.map = map (the same Map object).
\* D is the builder's type argument, the interfaces bound so far; never says
\* that the static type of the value is never.  The type exists at compile
\* time only: at run time such a builder is a builder like any other, and a
\* client written in JavaScript or going through a cast can call it, so the
\* actions do not ask for it.  WellTyped selects what a type-checked client
\* can reach.
NewGraphBuilder(mapId, D, never, origin) ==
  [map |-> mapId, D |-> D, never |-> never, origin |-> origin]

\* a faulty variant of NewGraph: a graph built from graph.modify() takes over the
\* scope caches of the graph it was derived from
NewGraphKeepingScopes(mapId, never, src) ==
  [map |-> mapId,
   props |-> IF builders[src].origin.op = "modify"
             THEN graphs[builders[src].origin.of].props
             ELSE [singletonSymbol |-> NoProp, weakSymbol |-> NoProp],
   made |-> [i \in Iface |-> 0],
   never |-> never, src |-> src]

\* new Graph(map), with mapId the copy made by the constructor
NewGraph(mapId, never, src) ==
  [map |-> mapId,
   props |-> [singletonSymbol |-> NoProp, weakSymbol |-> NoProp],
   made |-> [i \in Iface |-> 0],
   never |-> never, src |-> src]

\* GraphBuilder.start(impl, ctor, scope)
start(impl, ctor, scope) ==
  /\ LET map == MapSet(<<>>, impl, [scope |-> scope, ctor |-> ctor])
     IN /\ maps' = Append(maps, map)
        /\ builders' = Append(builders,
             NewGraphBuilder(Len(maps) + 1, {impl}, FALSE,
                             Origin("start", 0, impl, ctor, scope, NoBinding)))
  /\ UNCHANGED <<program, graphs, returned, thrown>>

\* a faulty variant of AddMap: an interface that is already bound keeps its binding
AddMapFirstWins(thisMap, impl, ctor, scope) ==
  IF impl \in DOMAIN thisMap
  THEN MapCopy(thisMap)
  ELSE MapSet(MapCopy(thisMap), impl, [scope |-> scope, ctor |-> ctor])

\* the Map object add builds: a copy of this.map with impl set
AddMap(thisMap, impl, ctor, scope) ==
  MapSet(MapCopy(thisMap), impl, [scope |-> scope, ctor |-> ctor])

\* a faulty variant of add: the binding is set on this.map itself, without the copy
addInPlace(b, impl, ctor, scope) ==
  /\ maps' = [maps EXCEPT ![builders[b].map] = MapSet(@, impl, [scope |-> scope, ctor |-> ctor])]
  /\ builders' = Append(builders,
       NewGraphBuilder(builders[b].map, builders[b].D \cup {impl},
                       builders[b].never \/ AddIsNever(builders[b].D, ctor),
                       Origin("add", b, impl, ctor, scope,
                              IF impl \in DOMAIN BuilderMap(b)
                              THEN BuilderMap(b)[impl] ELSE NoBinding)))
  /\ UNCHANGED <<program, graphs, returned, thrown>>

\* builder.add(impl, ctor, scope)
add(b, impl, ctor, scope) ==
  /\ maps' = Append(maps, AddMap(BuilderMap(b), impl, ctor, scope))
  /\ builders' = Append(builders,
       NewGraphBuilder(Len(maps) + 1, builders[b].D \cup {impl},
                       builders[b].never \/ AddIsNever(builders[b].D, ctor),
                       Origin("add", b, impl, ctor, scope,
                              IF impl \in DOMAIN BuilderMap(b)
                              THEN BuilderMap(b)[impl] ELSE NoBinding)))
  /\ UNCHANGED <<program, graphs, returned, thrown>>

\* a faulty variant of build: the bindings move out of the builder into the graph
buildMovingOut(b) ==
  /\ Len(graphs) < MaxGraphs
  /\ maps' = Append([maps EXCEPT ![builders[b].map] = <<>>], MapCopy(BuilderMap(b)))
  /\ graphs' = Append(graphs, NewGraph(Len(maps) + 1, builders[b].never, b))
  /\ returned' = Append(returned, [i \in Iface |-> {}])
  /\ UNCHANGED <<program, builders, thrown>>

\* builder.build()
build(b) ==
  /\ Len(graphs) < MaxGraphs
  /\ maps' = Append(maps, MapCopy(BuilderMap(b)))
  /\ graphs' = Append(graphs, NewGraph(Len(maps) + 1, builders[b].never, b))
  /\ returned' = Append(returned, [i \in Iface |-> {}])
  /\ UNCHANGED <<program, builders, thrown>>

\* a faulty variant of modify: the builder starts from a new, empty Map
modifyFresh(g) ==
  /\ maps' = Append(maps, <<>>)
  /\ builders' = Append(builders,
       NewGraphBuilder(Len(maps) + 1, DOMAIN GraphMap(g), graphs[g].never,
                       Origin("modify", g, "", "", "", NoBinding)))
  /\ UNCHANGED <<program, graphs, returned, thrown>>

\* graph.modify()
modify(g) ==
  /\ builders' = Append(builders,
       NewGraphBuilder(graphs[g].map, DOMAIN GraphMap(g), graphs[g].never,
                       Origin("modify", g, "", "", "", NoBinding)))
  /\ UNCHANGED <<program, maps, graphs, returned, thrown>>

\* the state of graph g a resolve call works on
GraphState(g) ==
  [map |-> GraphMap(g), props |-> graphs[g].props, made |-> graphs[g].made]

\* the outcome of the client's call graph.resolve(iface)
Outcome(g, iface) == resolve(g, GraphState(g), iface, 1)

\* graph.resolve(iface), called by the client.  The call works on the graph
\* object and on the Map object it holds: what it leaves in them is their
\* state after the call.
Resolve(g, iface) ==
  LET r == Outcome(g, iface)
  IN /\ \A i \in Iface : r.G.made[i] <= MaxMade
     /\ maps' = [maps EXCEPT ![graphs[g].map] = r.G.map]
     /\ graphs' = [graphs EXCEPT ![g].props = r.G.props, ![g].made = r.G.made]
     /\ returned' = IF r.ok
                    THEN [returned EXCEPT ![g][iface] = @ \cup {r.val}]
                    ELSE returned
     /\ thrown' = IF r.ok THEN thrown ELSE r.err
     /\ UNCHANGED <<program, builders>>

\* the client makes any call on any object it holds, while fewer than
\* MaxBuilders builders exist
Next ==
  \/ \E x \in program :
       /\ Len(builders) < MaxBuilders
       /\ x.ctor \in EmptyConstructor
       /\ start(Implements(x.ctor), x.ctor, x.scope)
  \/ \E b \in Builders, x \in program :
       /\ Len(builders) < MaxBuilders
       /\ add(b, Implements(x.ctor), x.ctor, x.scope)
  \/ \E b \in Builders : build(b)
  \/ \E g \in Graphs :
       /\ Len(builders) < MaxBuilders
       /\ modify(g)
  \/ \E g \in Graphs, iface \in Iface : Resolve(g, iface)

Spec == Init /\ [][Next]_vars

\* The client of the Rebinding program that writes its calls as one chain:
\* one start, every add on the builder the previous call returned, modify and
\* build on anything it holds.  A chain of start, add, modify, add takes one
\* builder more than Next allows.
InitChain == Init /\ program = Rebinding

NextChain ==
  \/ \E x \in program :
       /\ builders = <<>>
       /\ x.ctor \in EmptyConstructor
       /\ start(Implements(x.ctor), x.ctor, x.scope)
  \/ \E x \in program :
       /\ Len(builders) \in 1..MaxBuilders
       /\ add(Len(builders), Implements(x.ctor), x.ctor, x.scope)
  \/ \E b \in Builders : build(b)
  \/ \E g \in Graphs :
       /\ Len(builders) \in 1..MaxBuilders
       /\ modify(g)
  \/ \E g \in Graphs, iface \in Iface : Resolve(g, iface)

SpecChain == InitChain /\ [][NextChain]_vars

----------------------------------------------------------------------------
(* Vocabulary of the properties *)

\* the interfaces bound in graph g
Bound(g) == DOMAIN GraphMap(g)

\* the graphs a type-checked client can hold: no add on the way to them had
\* the return type never
WellTyped(g) == ~graphs[g].never

\* interface i is bound in graph g under the given scope
BoundAs(g, i, scope) == i \in Bound(g) /\ GraphMap(g)[i].scope = scope

UnsatisfiedDependency(iface) == [kind |-> "UnsatisfiedDependency", iface |-> iface]

\* builder b came from add on a receiver in which some interface the
\* provider requires was not bound
AddedUnmet(b) ==
  /\ builders[b].origin.op = "add"
  /\ ~(Requires(builders[b].origin.ctor) \subseteq builders[builders[b].origin.of].D)

\* builder b came from add of an interface that was not bound in the receiver
AddedNew(b) ==
  /\ builders[b].origin.op = "add"
  /\ builders[b].origin.impl \notin builders[builders[b].origin.of].D

\* builder b came from add of an interface the receiver had already bound
Rebound(b) ==
  /\ builders[b].origin.op = "add"
  /\ builders[b].origin.prev # NoBinding

\* graph g2 is g1.modify().build()
ModifiedFrom(g2, g1) ==
  /\ builders[graphs[g2].src].origin.op = "modify"
  /\ builders[graphs[g2].src].origin.of = g1

\* the interfaces the provider of i in graph g depends on, directly and
\* through the providers bound in g
DirectDeps(g, i) == IF i \in Bound(g) THEN Requires(GraphMap(g)[i].ctor) ELSE {}

RECURSIVE Closure(_, _, _)
Closure(g, S, n) ==
  IF n = 0 THEN S
  ELSE Closure(g, S \cup UNION {DirectDeps(g, j) : j \in S}, n - 1)

TransitiveDeps(g, i) == Closure(g, DirectDeps(g, i), Cardinality(Iface))

----------------------------------------------------------------------------
(* Properties *)

\* C1: an add whose provider requires an interface that is not bound in the
\* receiver is rejected at the add call.  The code has no run-time check, add
\* always returns a builder; the only rejection it knows is the static one,
\* so the claim is stated in its weakest form: the builder returned by such
\* an add has the type never, and no type-checked client can build from it.
C1_AddRejectsUnmetDependency ==
  \A b \in Builders : AddedUnmet(b) => builders[b].never

\* C2: on a graph a type-checked client holds, the provider of a
\* singleton-scoped interface has been invoked at most once, every resolve of
\* it returned the same instance, and once it was resolved a further resolve
\* returns that instance and invokes no provider at all.
C2_SingletonConstructedOnce ==
  \A g \in Graphs : WellTyped(g) =>
    \A i \in Iface : BoundAs(g, i, "singleton") =>
      /\ graphs[g].made[i] <= 1
      /\ Cardinality(returned[g][i]) <= 1
      /\ returned[g][i] # {} =>
           /\ Outcome(g, i).ok
           /\ Outcome(g, i).val \in returned[g][i]
           /\ Outcome(g, i).G.made = graphs[g].made

\* C3: in every graph, whatever was resolved on it before, resolve of an
\* interface that is not bound throws UnsatisfiedDependency naming that
\* interface and returns no value.
C3_UnboundThrowsUnsatisfied ==
  \A g \in Graphs : \A j \in Iface \ Bound(g) :
    /\ ~Outcome(g, j).ok
    /\ Outcome(g, j).err = UnsatisfiedDependency(j)
    /\ Outcome(g, j).val = NoValue

\* a resolve of CoffeeMaker failed on a graph that does not bind it, after
\* other interfaces were resolved on that graph (no provider depends on
\* CoffeeMaker, so the error names it only when it was the one asked for)
C3_Witness ==
  /\ thrown = UnsatisfiedDependency("CoffeeMaker")
  /\ \A g \in Graphs : "CoffeeMaker" \notin Bound(g)
  /\ \E g \in Graphs : returned[g]["Heater"] # {}

\* C4: for G2 = G1.modify().build() and I singleton-scoped in G1, no instance
\* G1.resolve(I) returned is one G2.resolve(I) returned, in whatever order
\* the calls were made: a graph nothing was resolved on has no scope cache,
\* and every instance G2 returns for I was constructed on G2.
C4_ModifiedGraphHasOwnSingleton ==
  /\ \A g \in Graphs :
       (\A i \in Iface : graphs[g].made[i] = 0) =>
         (\A sym \in DOMAIN graphs[g].props : ~graphs[g].props[sym].defined)
  /\ \A g1, g2 \in Graphs : ModifiedFrom(g2, g1) =>
       \A i \in Iface : BoundAs(g1, i, "singleton") =>
         /\ returned[g1][i] \cap returned[g2][i] = {}
         /\ \A v \in returned[g2][i] : v.id[1] = g2 /\ graphs[g2].made[i] >= 1

\* both graphs returned an instance of the singleton-scoped interface
C4_Witness ==
  \E g1, g2 \in Graphs :
    /\ ModifiedFrom(g2, g1)
    /\ \E i \in Iface :
         /\ BoundAs(g1, i, "singleton")
         /\ returned[g1][i] # {}
         /\ returned[g2][i] # {}

\* what C5 says of a state: for B2 = B1.add(I, ctor) with I not bound in B1,
\* B1 does not bind I, no graph built from B1 binds I and resolve(I) fails
\* on it, and every graph built from B2 binds I to the provider of the add
C5_State ==
  \A b2 \in Builders : AddedNew(b2) =>
    LET b1 == builders[b2].origin.of
        i == builders[b2].origin.impl
    IN /\ i \notin DOMAIN BuilderMap(b1)
       /\ i \in DOMAIN BuilderMap(b2)
       /\ \A g \in Graphs :
            /\ graphs[g].src = b1 =>
                 /\ i \notin Bound(g)
                 /\ Outcome(g, i).err = UnsatisfiedDependency(i)
            /\ graphs[g].src = b2 =>
                 /\ i \in Bound(g)
                 /\ GraphMap(g)[i] = B(builders[b2].origin.ctor, builders[b2].origin.scope)

\* C5: no call changes the bindings of a builder that exists (the receiver of
\* add in particular), and after B2 = B1.add(I, ctor) with I not bound in B1
\* the graphs built from B1, before or after the add, do not bind I and fail
\* resolve(I), while the graphs built from B2 bind I.
C5_AddLeavesReceiverUnchanged ==
  [][/\ \A b \in Builders : builders'[b] = builders[b] /\ BuilderMap(b)' = BuilderMap(b)
     /\ C5_State']_vars

\* a builder and the one add derived from it were both built, and resolve of
\* the added interface failed on a graph
C5_Witness ==
  \E b2 \in Builders :
    /\ AddedNew(b2)
    /\ builders[b2].origin.impl = "CoffeeMaker"
    /\ \E g1, g2 \in Graphs :
         /\ graphs[g1].src = builders[b2].origin.of
         /\ graphs[g2].src = b2
    /\ thrown = UnsatisfiedDependency("CoffeeMaker")

\* C6: on a graph a type-checked client holds, every resolve of a weak-scoped
\* interface succeeds, all of them returned the same instance and its
\* provider was invoked at most once (no cache entry is ever collected: the
\* keys are the interface tokens the graph itself holds).
C6_WeakBehavesLikeSingleton ==
  \A g \in Graphs : WellTyped(g) =>
    \A i \in Iface : BoundAs(g, i, "weak") =>
      /\ Outcome(g, i).ok
      /\ graphs[g].made[i] <= 1
      /\ Cardinality(returned[g][i]) <= 1

\* C7: on a graph a type-checked client holds, every resolve of an unscoped
\* interface succeeds, invokes its provider exactly once and returns an
\* instance that was not returned before.
C7_NoneConstructsEveryTime ==
  \A g \in Graphs : WellTyped(g) =>
    \A i \in Iface : BoundAs(g, i, "none") =>
      /\ Outcome(g, i).ok
      /\ Outcome(g, i).G.made[i] = graphs[g].made[i] + 1
      /\ Outcome(g, i).val \notin returned[g][i]

\* C8: in every graph a type-checked client holds no bound provider depends
\* on its own interface, directly or through other providers, and no resolve
\* recurses until the call stack is exhausted.
C8_GraphsAreAcyclic ==
  \A g \in Graphs : WellTyped(g) =>
    \A i \in Bound(g) :
      /\ i \notin TransitiveDeps(g, i)
      /\ Outcome(g, i).err.kind # "RangeError"

\* C9: in every graph a type-checked client holds, resolve of a bound
\* interface never throws UnsatisfiedDependency, neither for the interface
\* itself nor for one a provider asks for on the way.
C9_GraphsAreClosed ==
  \A g \in Graphs : WellTyped(g) =>
    \A i \in Bound(g) :
      /\ TransitiveDeps(g, i) \subseteq Bound(g)
      /\ Outcome(g, i).err.kind # "UnsatisfiedDependency"

\* C10: add of an interface the receiver has already bound returns a builder
\* that binds the same interfaces, the rebound one to the provider and scope
\* of the call and every other one as the receiver does; the receiver still
\* has the binding it had before.
C10_RebindLastWriteWins ==
  \A b2 \in Builders : Rebound(b2) =>
    LET b1 == builders[b2].origin.of
        i == builders[b2].origin.impl
    IN /\ DOMAIN BuilderMap(b2) = DOMAIN BuilderMap(b1)
       /\ BuilderMap(b2)[i] = B(builders[b2].origin.ctor, builders[b2].origin.scope)
       /\ \A k \in DOMAIN BuilderMap(b1) \ {i} : BuilderMap(b2)[k] = BuilderMap(b1)[k]
       /\ BuilderMap(b1)[i] = builders[b2].origin.prev

\* an interface was rebound to another provider under another scope, in a
\* builder that has a further binding
C10_Witness ==
  \E b2 \in Builders :
    /\ Rebound(b2)
    /\ builders[b2].origin.prev.ctor # builders[b2].origin.ctor
    /\ builders[b2].origin.prev.scope # builders[b2].origin.scope
    /\ Cardinality(DOMAIN BuilderMap(b2)) > 1

\* what C11 says of a state: every graph binds what the builder it was built
\* from binds
C11_State ==
  \A g \in Graphs : GraphMap(g) = BuilderMap(graphs[g].src)

\* C11: the graph build() returns binds what the builder binds, no later call
\* (add, build, modify or resolve, on any builder or graph) changes the
\* interfaces a graph binds or their providers, and build() leaves every
\* builder, the receiver included, as it was.
C11_BuildIsSnapshot ==
  [][/\ \A g \in Graphs : graphs'[g].map = graphs[g].map /\ GraphMap(g)' = GraphMap(g)
     /\ \A b \in Builders :
          build(b) => /\ builders' = builders
                      /\ \A c \in Builders : BuilderMap(c)' = BuilderMap(c)
     /\ C11_State']_vars

\* a builder was built twice and extended by add, and something was resolved
\* on one of its graphs
C11_Witness ==
  \E b \in Builders :
    /\ \E g1, g2 \in Graphs :
         /\ g1 # g2
         /\ graphs[g1].src = b
         /\ graphs[g2].src = b
         /\ \E i \in Iface : returned[g1][i] # {}
    /\ \E b2 \in Builders : AddedNew(b2) /\ builders[b2].origin.of = b

\* builder b is g.modify() or comes from it through add calls
RECURSIVE DerivedFrom(_, _)
DerivedFrom(b, g) ==
  \/ builders[b].origin.op = "modify" /\ builders[b].origin.of = g
  \/ builders[b].origin.op = "add" /\ DerivedFrom(builders[b].origin.of, g)

\* C12: the builder g.modify() returns binds exactly what g binds, and once
\* builders are derived from g no step (add or build on them, on the builders
\* that come from them, or anything else) changes what g binds; a builder
\* that rebinds an interface of g records the binding g still has.
C12_ModifyLeavesGraphUnchanged ==
  [][/\ \A g \in Graphs :
          modify(g) => /\ BuilderMap(Len(builders))' = GraphMap(g)
                       /\ GraphMap(g)' = GraphMap(g)
     /\ \A g \in Graphs :
          (\E b \in Builders : DerivedFrom(b, g)) =>
             /\ graphs'[g].map = graphs[g].map
             /\ GraphMap(g)' = GraphMap(g)
             /\ \A b \in Builders :
                  (builders[b].origin.op = "modify" /\ builders[b].origin.of = g)
                    => BuilderMap(b)' = GraphMap(g)
             /\ \A b \in Builders :
                  (Rebound(b) /\ builders[builders[b].origin.of].origin.op = "modify"
                              /\ builders[builders[b].origin.of].origin.of = g)
                    => GraphMap(g)'[builders[b].origin.impl] = builders[b].origin.prev]_vars

\* g2 was built from g1.modify().add(...) rebinding an interface of g1 to
\* another provider
C12_Witness ==
  \E g1, g2 \in Graphs :
    LET b == graphs[g2].src
    IN /\ Rebound(b)
       /\ DerivedFrom(b, g1)
       /\ GraphMap(g2)[builders[b].origin.impl] # GraphMap(g1)[builders[b].origin.impl]

\* every dependency of every provider of g is bound in g, and no provider
\* depends on its own interface
Closed(g) == \A i \in Bound(g) : DirectDeps(g, i) \subseteq Bound(g)
Acyclic(g) == \A i \in Bound(g) : i \notin TransitiveDeps(g, i)

\* C13: on a closed, acyclic graph that binds an interface s under singleton
\* and an interface w under weak, whatever was resolved before, resolve of s
\* and resolve of w succeed, and each returns an instance of the class bound
\* to its own interface, constructed by that interface's provider.
C13_SingletonAndWeakCoexist ==
  \A g \in Graphs : (WellTyped(g) /\ Closed(g) /\ Acyclic(g)) =>
    \A s, w \in Iface : (BoundAs(g, s, "singleton") /\ BoundAs(g, w, "weak")) =>
      /\ Outcome(g, s).ok
      /\ Outcome(g, w).ok
      /\ Outcome(g, s).val.ctor = GraphMap(g)[s].ctor
      /\ Outcome(g, w).val.ctor = GraphMap(g)[w].ctor
      /\ Outcome(g, s).val.id[2] = s
      /\ Outcome(g, w).val.id[2] = w

\* C15: a step that is a call g.resolve(i), returning or throwing, under any
\* scope, leaves the Map of every graph (g included) and of every builder
\* with the same interfaces and providers, leaves every builder and every
\* other graph as they were, and changes of g nothing but what its scopes
\* keep (the hidden properties and the count of provider invocations).
C15_ResolveChangesOnlyScopeCache ==
  [][\A g \in Graphs, i \in Iface :
       Resolve(g, i) =>
         /\ builders' = builders
         /\ \A b \in Builders : BuilderMap(b)' = BuilderMap(b)
         /\ \A h \in Graphs : /\ graphs'[h].map = graphs[h].map
                              /\ GraphMap(h)' = GraphMap(h)
                              /\ h # g => graphs'[h] = graphs[h]
         /\ Len(graphs') = Len(graphs)
         /\ Len(maps') = Len(maps)]_vars

\* on a graph that has a builder from modify(), one resolve has returned and
\* filled the singleton cache, another has thrown
C15_Witness ==
  \E g \in Graphs :
    /\ \E b \in Builders : builders[b].origin.op = "modify" /\ builders[b].origin.of = g
    /\ Len(graphs) = 1
    /\ graphs[g].props["singletonSymbol"].entries # <<>>
    /\ \E i \in Iface : returned[g][i] # {}
    /\ thrown.kind = "UnsatisfiedDependency"

\* graphs g1 and g2 are two build() results of one builder
SameBuilder(g1, g2) == g1 # g2 /\ graphs[g1].src = graphs[g2].src

\* what C16 says of a state
C16_State ==
  \A g1, g2 \in Graphs : SameBuilder(g1, g2) =>
    /\ \A i \in Iface : \A v \in returned[g1][i] : v.id[1] = g1
    /\ \A i, j \in Iface : returned[g1][i] \cap returned[g2][j] = {}
    /\ \A i \in Iface :
         (BoundAs(g1, i, "singleton") /\ returned[g1][i] # {} /\ returned[g2][i] # {}) =>
           /\ graphs[g1].made[i] = 1
           /\ graphs[g2].made[i] = 1
           /\ Cardinality(returned[g1][i] \cup returned[g2][i]) = 2

\* C16: for two graphs built from the same builder, the instances a graph
\* returns are constructed on that graph and none is returned by both; a
\* singleton-scoped interface resolved on both was constructed exactly once
\* on each, giving two distinct instances; and a resolve on one graph leaves
\* the other graph's bindings, caches and provider counts as they were, which
\* is all that the outcome of a resolve on it depends on.
C16_GraphsOfOneBuilderKeepOwnCaches ==
  [][/\ C16_State'
     /\ \A g1, g2 \in Graphs : \A i \in Iface :
          (SameBuilder(g1, g2) /\ Resolve(g1, i)) =>
             /\ graphs'[g2] = graphs[g2]
             /\ returned'[g2] = returned[g2]
             /\ GraphState(g2)' = GraphState(g2)]_vars

\* a singleton-scoped interface was resolved on both graphs of one builder
C16_Witness ==
  \E g1, g2 \in Graphs : \E i \in Iface :
    /\ SameBuilder(g1, g2)
    /\ BoundAs(g1, i, "singleton")
    /\ returned[g1][i] # {}
    /\ returned[g2][i] # {}

\* the entries of the cache scopes.singleton reads on graph g
SingletonCache(g) == graphs[g].props["singletonSymbol"].entries

\* C17: on a graph a type-checked client holds that binds two distinct
\* interfaces i and j under singleton, every instance resolve(i) returned and
\* the entry cached for i were built by the provider bound to i (likewise for
\* j), and each of the two providers has been invoked at most once.
C17_SingletonCacheKeyedByInterface ==
  \A g \in Graphs : WellTyped(g) =>
    \A i, j \in Iface : (i # j /\ BoundAs(g, i, "singleton") /\ BoundAs(g, j, "singleton")) =>
      /\ \A v \in returned[g][i] : v.ctor = GraphMap(g)[i].ctor /\ v.id[2] = i
      /\ i \in DOMAIN SingletonCache(g) =>
           /\ SingletonCache(g)[i].ctor = GraphMap(g)[i].ctor
           /\ SingletonCache(g)[i].id[2] = i
      /\ graphs[g].made[i] <= 1
      /\ graphs[g].made[j] <= 1

\* C18 as stated: when g.resolve(i) of a singleton-scoped i fails on a graph a
\* type-checked client holds, the error reaches the caller, nothing is cached
\* for i, the cache entries of the other interfaces are the same after the
\* call, and resolve(i) on the state the call left invokes i's provider again.
C18_FailedSingletonLeavesCacheUnchanged ==
  [][\A g \in Graphs, i \in Iface :
       (WellTyped(g) /\ BoundAs(g, i, "singleton") /\ ~Outcome(g, i).ok /\ Resolve(g, i)) =>
          /\ thrown' = Outcome(g, i).err
          /\ thrown'.kind # "none"
          /\ returned' = returned
          /\ i \notin DOMAIN SingletonCache(g)'
          /\ SingletonCache(g)' = SingletonCache(g)
          /\ Outcome(g, i)'.G.made[i] = graphs'[g].made[i] + 1]_vars

\* C18, amended: when g.resolve(i) of a singleton-scoped i fails, the error
\* reaches the caller, nothing is cached for i, every entry the cache had
\* before the call is the same after it, the only entries the call adds are
\* those of singleton-scoped interfaces i depends on, each built by its own
\* provider in a nested resolution that completed before the failure, and
\* resolve(i) on the state the call left invokes i's provider again.
C18_FailedSingletonCachesOnlyNested ==
  [][\A g \in Graphs, i \in Iface :
       (BoundAs(g, i, "singleton") /\ ~Outcome(g, i).ok /\ Resolve(g, i)) =>
          /\ thrown' = Outcome(g, i).err
          /\ thrown'.kind # "none"
          /\ returned' = returned
          /\ i \notin DOMAIN SingletonCache(g)'
          /\ \A j \in DOMAIN SingletonCache(g) :
               /\ j \in DOMAIN SingletonCache(g)'
               /\ SingletonCache(g)'[j] = SingletonCache(g)[j]
          /\ \A j \in (DOMAIN SingletonCache(g)') \ (DOMAIN SingletonCache(g)) :
               /\ j \in TransitiveDeps(g, i)
               /\ BoundAs(g, j, "singleton")
               /\ SingletonCache(g)'[j].id = <<g, j, graphs'[g].made[j]>>
               /\ graphs'[g].made[j] = graphs[g].made[j] + 1
          /\ Outcome(g, i)'.G.made[i] = graphs'[g].made[i] + 1]_vars

\* a singleton-scoped interface was resolved and failed twice on a graph a
\* type-checked client holds, its provider ran both times, and the singleton
\* it depends on was cached by the nested resolution
C18_Witness ==
  \E g \in Graphs : \E i, j \in Iface :
    /\ WellTyped(g)
    /\ BoundAs(g, i, "singleton")
    /\ graphs[g].made[i] = 2
    /\ returned[g][i] = {}
    /\ thrown.kind = "UnsatisfiedDependency"
    /\ i \notin DOMAIN SingletonCache(g)
    /\ j \in TransitiveDeps(g, i)
    /\ j \in DOMAIN SingletonCache(g)
    /\ returned[g][j] = {}

\* instance v, and every instance it holds, was constructed on graph g by the
\* provider g binds to its interface, from the dependencies resolved on g
RECURSIVE MadeOn(_, _)
MadeOn(g, v) ==
  /\ v.id[1] = g
  /\ v.id[2] \in Bound(g)
  /\ v.ctor = GraphMap(g)[v.id[2]].ctor
  /\ Len(v.parts) = Len(Deps(v.ctor))
  /\ \A k \in 1..Len(v.parts) :
       /\ v.parts[k].id[2] = Deps(v.ctor)[k]
       /\ MadeOn(g, v.parts[k])

\* C14: every instance g.resolve(i) returned was constructed, with all the
\* instances nested in it, by the providers g itself binds, also when g
\* inherited the binding of i through modify(): where g2 comes from
\* g1.modify() by an add rebinding h, the instances of an inherited p that
\* depends on h hold g2's h when returned by g2 and g1's h when returned by g1.
C14_NestedResolutionOnSameGraph ==
  \A g \in Graphs : \A i \in Iface : \A v \in returned[g][i] :
    /\ v.id[2] = i
    /\ MadeOn(g, v)

\* g2 is g1.modify().add(h, other).build(), p is inherited and depends on h,
\* and p was resolved on both graphs
C14_Witness ==
  \E g1, g2 \in Graphs : \E p \in Iface :
    LET b == graphs[g2].src
        h == builders[b].origin.impl
    IN /\ Rebound(b)
       /\ builders[builders[b].origin.of].origin.op = "modify"
       /\ builders[builders[b].origin.of].origin.of = g1
       /\ p # h
       /\ h \in DirectDeps(g1, p)
       /\ GraphMap(g2)[p] = GraphMap(g1)[p]
       /\ GraphMap(g2)[h].ctor # GraphMap(g1)[h].ctor
       /\ returned[g1][p] # {}
       /\ returned[g2][p] # {}
       /\ \A v \in returned[g1][p] : v.parts[1].ctor = GraphMap(g1)[h].ctor
       /\ \A v \in returned[g2][p] : v.parts[1].ctor = GraphMap(g2)[h].ctor

====
